---- MODULE Spec2Model ----
(***************************************************************************)
(* Model of backend/routes/app.py: a Streamlit page that one-hot encodes   *)
(* the selected symptoms, asks a classifier for a disease, ranks the       *)
(* class probabilities, resolves a specialty and queries the NPPES         *)
(* registry.  Every user interaction reruns the whole script, so each      *)
(* action below is one script run with (at most) one button clicked.       *)
(***************************************************************************)
EXTENDS Integers, Sequences, FiniteSets, TLC

VARIABLES
    \* ---- st.session_state (app.py 241-250)
    last_prediction, recommended_specialty, taxonomy_code, prediction_probs,
    show_providers,
    \* ---- load_model_features_mapping() (app.py 77-106)
    classes_,               \* model.classes_
    has_predict_proba,      \* hasattr(model, "predict_proba")
    disease_to_specialty,   \* Disease -> record of the mapping file
    all_symptoms,           \* the feature list
    \* ---- one script run
    selected_symptoms,      \* the value of the multiselect (app.py 257)
    clicked,                \* the button whose click started the run
    X,                      \* the row built by one_hot in the run
    info,                   \* the handler's local `info` (app.py 290)
    response,               \* what requests.get did in the run
    ui                      \* what the run rendered

vars == <<last_prediction, recommended_specialty, taxonomy_code, prediction_probs,
          show_providers, classes_, has_predict_proba, disease_to_specialty,
          all_symptoms, selected_symptoms, clicked, X, info, response, ui>>

session == <<last_prediction, recommended_specialty, taxonomy_code,
             prediction_probs, show_providers>>

artifacts == <<classes_, has_predict_proba, disease_to_specialty, all_symptoms>>

----------------------------------------------------------------------------
(* Values *)

\* Python's None, where a string is expected
None == "<None>"

\* Python's None, where a dict or an array is expected
NoneObj == [none |-> TRUE]

\* an exception raised by a call
Raise == "<raise>"

\* the class labels of a classifier trained on disease names
StrClasses == <<"Cold", "Flu", "Gout">>

\* the class labels of a classifier trained on encoded (numpy integer) labels
IntClasses == <<"<int64 0>", "<int64 1>", "<int64 2>">>

\* isinstance(v, str): an integer label has no .lower()
IsStr(v) == \A i \in DOMAIN IntClasses : v # IntClasses[i]

\* bool(v) for the values the session holds: None, "" and the integer 0 are falsy
Truthy(v) == v # None /\ v # "" /\ v # IntClasses[1]

\* str.lower on the labels of the model
Lower(s) ==
    CASE s = "Flu" -> "flu"
      [] s = "Cold" -> "cold"
      [] s = "Gout" -> "gout"
      [] OTHER -> s

\* dict.get(key): None when the key is absent
Get(d, k) == IF k \in DOMAIN d THEN d[k] ELSE None

\* Python's  a or b  on strings and None
Or(a, b) == IF Truthy(a) THEN a ELSE b

\* dict.get(key) on a dict of dicts
GetRow(d, k) == IF k \in DOMAIN d THEN d[k] ELSE NoneObj

\* Python's  a or b  where a is None or a non-empty dict
OrDict(a, b) == IF a # NoneObj THEN a ELSE b

RECURSIVE SumSeq(_)
SumSeq(s) == IF s = <<>> THEN 0 ELSE Head(s) + SumSeq(Tail(s))

RECURSIVE SeqsOfLen(_, _)
SeqsOfLen(S, n) ==
    IF n = 0 THEN {<<>>}
    ELSE {Append(s, e) : s \in SeqsOfLen(S, n - 1), e \in S}

Range(s) == {s[i] : i \in DOMAIN s}

IsInjective(s) == \A i, j \in DOMAIN s : s[i] = s[j] => i = j

----------------------------------------------------------------------------
(* Bounds and program constants *)

\* largest number of classes of a classifier in the ranking specification
MaxClasses == 4

\* longest feature list in the encoding specification
MaxFeatures == 3

\* probabilities are held in hundredths (the display multiplies by 100)
Scale == 100

\* probs[i] < 0.05 is skipped by the display
Threshold == 5

\* np.argsort(probs)[-3:]
TopN == 3

\* response.status_code == 200
StatusOK == 200

----------------------------------------------------------------------------
(* Feature Encoder: one_hot (app.py 113-117) *)

\* pd.DataFrame(0, index=[0], columns=all_feats): one row of zeros
ZeroRow(all_feats) == [i \in 1..Len(all_feats) |-> 0]

\* df.loc[0, label] = 1 for one label: every column carrying the label
SetLabel(row, all_feats, label) ==
    [i \in DOMAIN row |-> IF all_feats[i] = label THEN 1 ELSE row[i]]

\* df.loc[0, symptoms] = 1: the labels of the list, one after the other
RECURSIVE SetLabels(_, _, _)
SetLabels(row, all_feats, symptoms) ==
    IF symptoms = <<>> THEN row
    ELSE SetLabels(SetLabel(row, all_feats, Head(symptoms)), all_feats, Tail(symptoms))

\* a bug the encoder could have: df.iloc[0, :len(symptoms)] = 1
one_hot_by_position(symptoms, all_feats) ==
    [i \in 1..Len(all_feats) |-> IF i <= Len(symptoms) THEN 1 ELSE 0]

one_hot(symptoms, all_feats) == SetLabels(ZeroRow(all_feats), all_feats, symptoms)

\* st.multiselect over the feature list: the chosen options, in the order chosen
Selections(all_feats) ==
    UNION {{s \in SeqsOfLen(Range(all_feats), n) : IsInjective(s)} :
             n \in 0..Len(all_feats)}

----------------------------------------------------------------------------
(* Prediction Engine: ranking of the class probabilities (app.py 281-287)  *)

\* the probability rows of a classifier with n classes: hundredths from
\* `levels` that sum to one
RECURSIVE RowsSummingTo(_, _, _)
RowsSummingTo(n, levels, total) ==
    IF n = 0 THEN IF total = 0 THEN {<<>>} ELSE {}
    ELSE UNION {{<<v>> \o d : d \in RowsSummingTo(n - 1, levels, total - v)} :
                  v \in {l \in levels : l <= total}}

Dists(n, levels) == RowsSummingTo(n, levels, Scale)

\* the orderings of a set of indices
RECURSIVE PermsOf(_)
PermsOf(S) ==
    IF S = {} THEN {<<>>}
    ELSE UNION {{<<x>> \o p : p \in PermsOf(S \ {x})} : x \in S}

Perms(n) == PermsOf(1..n)

\* np.argsort(probs): a permutation of the indices that sorts probs ascending.
\* The default kind is "quicksort", which is not stable: equal probabilities come
\* out in any order.
ArgsortOutcomes(probs) ==
    {p \in Perms(Len(probs)) :
        \A i \in 1..(Len(probs) - 1) : probs[p[i]] <= probs[p[i + 1]]}

\* s[-n:]
LastN(s, n) == SubSeq(s, IF Len(s) > n THEN Len(s) - n + 1 ELSE 1, Len(s))

\* s[::-1]
Reverse(s) == [i \in 1..Len(s) |-> s[Len(s) + 1 - i]]

\* a bug the ranking could have: the first three of the ascending order
TopIdxLowest(order) == SubSeq(order, 1, IF Len(order) > TopN THEN TopN ELSE Len(order))

\* np.argsort(probs)[-3:][::-1], given what argsort returned
TopIdx(order) == Reverse(LastN(order, TopN))

\* the "Other possibilities" lines (app.py 315-318): (index, label, probability)
RECURSIVE OtherPossibilities(_, _, _)
OtherPossibilities(probs, top_idx, classes) ==
    IF top_idx = <<>> THEN <<>>
    ELSE LET i == Head(top_idx)
             rest == OtherPossibilities(probs, Tail(top_idx), classes)
         IN  IF probs[i] < Threshold THEN rest
             ELSE <<[idx |-> i, label |-> classes[i], prob |-> probs[i]]>> \o rest

----------------------------------------------------------------------------
(* Prediction Engine: specialty resolution (app.py 289-299) *)

TaxonomyCodeKey == "Taxonomy Code"

MappingRow(s, c, t) ==
    [Specialization |-> s, Classification |-> c] @@ (TaxonomyCodeKey :> t)

\* a bug the lookup could have: the exact label first, then its lowercase form
LookupInfoExactFirst(mapping, y_pred) ==
    OrDict(GetRow(mapping, y_pred), GetRow(mapping, Lower(y_pred)))

\* disease_to_specialty.get(y_pred.lower()) or disease_to_specialty.get(y_pred)
LookupInfo(mapping, y_pred) ==
    OrDict(GetRow(mapping, Lower(y_pred)), GetRow(mapping, y_pred))

\* info.get("Specialization") or info.get("Classification") or ""
SpecOf(i) == Or(Or(Get(i, "Specialization"), Get(i, "Classification")), "")

\* info.get("Taxonomy Code") or ""
TaxonomyOf(i) == Or(Get(i, TaxonomyCodeKey), "")

----------------------------------------------------------------------------
(* The session and the predict handler (app.py 270-302) *)

Session(lp, pp, rs, tc, sp) ==
    [last_prediction |-> lp, prediction_probs |-> pp, recommended_specialty |-> rs,
     taxonomy_code |-> tc, show_providers |-> sp]

CurrentSession ==
    Session(last_prediction, prediction_probs, recommended_specialty, taxonomy_code,
            show_providers)

\* app.py 241-250
InitialSession == Session(None, NoneObj, None, None, FALSE)

Handled(ss, err, i) == [ss |-> ss, error |-> err, info |-> i]

\* a bug the handler could have: the provider panel is left open
StorePredictionKeepsPanel(ss, y_pred) == [ss EXCEPT !.last_prediction = y_pred]

\* app.py 277-278
StorePrediction(ss, y_pred) ==
    [ss EXCEPT !.last_prediction = y_pred, !.show_providers = FALSE]

\* app.py 281-287
StoreProbs(ss, probs, order) ==
    [ss EXCEPT !.prediction_probs = [probs |-> probs, top_idx |-> TopIdx(order)]]

\* app.py 293-299
StoreSpecialty(ss, i) ==
    IF i # NoneObj
    THEN [ss EXCEPT !.recommended_specialty = SpecOf(i), !.taxonomy_code = TaxonomyOf(i)]
    ELSE ss

\* what model.predict_proba did: raised, or returned a row of probabilities
Raised == [raised |-> TRUE]

Returned(v) == [value |-> v]

\* The try block.  y is what model.predict returned (or Raise), p what
\* model.predict_proba did, order what np.argsort returned.
PredictHandler(ss, mapping, proba, y, p, order) ==
    IF y = Raise THEN Handled(ss, "Prediction failed", NoneObj)
    ELSE LET s1 == StorePrediction(ss, y) IN
         IF proba /\ p = Raised THEN Handled(s1, "Prediction failed", NoneObj)
         ELSE LET s2 == IF proba THEN StoreProbs(s1, p.value, order) ELSE s1 IN
              \* y_pred.lower() raises AttributeError on a label that is no string
              IF ~IsStr(y) THEN Handled(s2, "Prediction failed", NoneObj)
              ELSE LET i == LookupInfo(mapping, y)
                   IN  Handled(StoreSpecialty(s2, i), None, i)

----------------------------------------------------------------------------
(* Prediction display (app.py 305-329) *)

\* The run stops at line 311 when prediction_probs is None: the key is always in
\* st.session_state (app.py 247-248), and None["probs"] raises TypeError outside
\* any try block.
Display(ss, classes) ==
    IF ~Truthy(ss.last_prediction)
    THEN [crash |-> FALSE, likely |-> None, others |-> <<>>, specialty |-> None,
          caption |-> None]
    ELSE IF ss.prediction_probs = NoneObj
    THEN [crash |-> TRUE, likely |-> ss.last_prediction, others |-> <<>>,
          specialty |-> None, caption |-> None]
    ELSE [crash |-> FALSE, likely |-> ss.last_prediction,
          others |-> OtherPossibilities(ss.prediction_probs.probs,
                                        ss.prediction_probs.top_idx, classes),
          specialty |-> IF Truthy(ss.recommended_specialty)
                        THEN ss.recommended_specialty ELSE None,
          caption |-> IF Truthy(ss.recommended_specialty) /\ Truthy(ss.taxonomy_code)
                      THEN ss.taxonomy_code ELSE None]

----------------------------------------------------------------------------
(* Provider Lookup Client: fetch_providers_by_specialty (app.py 120-158) *)

\* app.py 128-139: the query parameters; a location value is added when truthy
Params(specialty, limit, location) ==
    LET base == [taxonomy_description |-> <<"quote", specialty>>, limit |-> limit,
                 version |-> "2.1", pretty |-> ""]
        given == {k \in DOMAIN location : location[k] # ""}
    IN  [k \in DOMAIN base \cup given |->
            IF k \in given THEN location[k] ELSE base[k]]

\* what requests.get(full_url) and response.json() can do
TransportError == [kind |-> "exception", message |-> "Connection refused"]

HttpResponse(status, body) == [kind |-> "http", status_code |-> status, json |-> body]

\* app.py 149-158
fetch_providers_by_specialty(http) ==
    IF http.kind = "exception" THEN [error |-> <<http.message>>]
    ELSE IF http.status_code = StatusOK
         THEN IF http.json = Raised
              THEN [error |-> <<"Expecting value">>]   \* json() raised inside the try
              ELSE http.json
         ELSE [error |-> <<"API request failed with status code ",
                           ToString(http.status_code)>>]

----------------------------------------------------------------------------
(* Result Presenter: render_provider_results (app.py 161-233) *)

\* one st.* call: its kind, the CSS class of the div it writes, its text
El(kind, cls, text) == [kind |-> kind, cls |-> cls, text |-> text]

NonEmpty(t) == t # ""

\* an f-string: the pieces in order, the empty ones leaving nothing
FString(parts) == SelectSeq(parts, NonEmpty)

\* dict.get(key, default)
GetOr(d, k, default) == IF k \in DOMAIN d THEN d[k] ELSE default

\* next((e for e in s if P(e)), None)
RECURSIVE FirstWith(_, _, _)
FirstWith(s, k, v) ==
    IF s = <<>> THEN NoneObj
    ELSE IF k \in DOMAIN Head(s) /\ Head(s)[k] = v THEN Head(s)
    ELSE FirstWith(Tail(s), k, v)

\* app.py 182-189
ProviderName(provider) ==
    LET basic == GetOr(provider, "basic", <<>>) IN
    IF GetOr(provider, "enumeration_type", "") = "NPI-1"
    THEN FString(<<GetOr(basic, "first_name", ""), " ", GetOr(basic, "last_name", "")>>)
    ELSE FString(<<GetOr(basic, "organization_name", "Unknown Provider")>>)

\* app.py 209-224
AddressElements(a) ==
    IF a = NoneObj THEN <<>>
    ELSE LET line == FString(<<GetOr(a, "address_1", "")>>)
                     \o (IF GetOr(a, "address_2", "") # ""
                         THEN <<", ", a["address_2"]>> ELSE <<>>)
             city_state == FString(<<GetOr(a, "city", ""), ", ", GetOr(a, "state", ""),
                                     " ", GetOr(a, "postal_code", "")>>)
         IN  <<El("markdown", "provider-address", line \o <<"<br>">> \o city_state)>>
             \o (IF GetOr(a, "telephone_number", "") # ""
                 THEN <<El("markdown", "provider-contact", <<a["telephone_number"]>>)>>
                 ELSE <<>>)

\* app.py 226-231
TaxonomyElements(t) ==
    IF t = NoneObj THEN <<>>
    ELSE <<El("markdown", "provider-taxonomy", FString(<<GetOr(t, "desc", "")>>))>>

\* app.py 180-233: the card of one provider
ProviderCard(provider) ==
    <<El("markdown", "provider-name", ProviderName(provider))>>
    \o AddressElements(FirstWith(GetOr(provider, "addresses", <<>>),
                                 "address_purpose", "LOCATION"))
    \o TaxonomyElements(FirstWith(GetOr(provider, "taxonomies", <<>>), "primary", TRUE))
    \o <<El("markdown", "", <<"</div>">>)>>

RECURSIVE ProviderCards(_)
ProviderCards(providers) ==
    IF providers = <<>> THEN <<>>
    ELSE ProviderCard(Head(providers)) \o ProviderCards(Tail(providers))

\* app.py 161-233
render_provider_results(results) ==
    IF DOMAIN results = {} \/ "results" \notin DOMAIN results
    THEN <<El("warning", "", <<"No provider results found.">>)>>
    ELSE IF "error" \in DOMAIN results
    THEN <<El("error", "", <<"Error fetching providers: ">> \o results.error)>>
    ELSE IF GetOr(results, "result_count", 0) = 0
    THEN <<El("info", "",
              <<"No providers found for this specialty in the selected location.">>)>>
    ELSE <<El("write", "", <<"Found ", ToString(results.result_count),
                             " providers. Showing top ",
                             ToString(Len(results.results)), ":">>)>>
         \o ProviderCards(results.results)

----------------------------------------------------------------------------
(* One run of the script (app.py 240-418) *)

NoLocation == [city |-> "", state |-> "", postal_code |-> ""]

NoRequest == [kind |-> "none"]

\* btn is the button clicked; sel the multiselect's value; y, p, order what the
\* classifier and argsort do if called; http what the registry does if called;
\* limit and location the widgets of the provider section.
ScriptRun(ss, classes, mapping, proba, feats, btn, sel, y, p, order, http, limit, location) ==
    LET \* app.py 270-302
        predicting == btn = "predict" /\ sel # <<>>
        h == IF predicting THEN PredictHandler(ss, mapping, proba, y, p, order)
             ELSE Handled(ss, None, NoneObj)
        \* app.py 305-329
        d == Display(h.ss, classes)
        \* app.py 332-334
        find_btn == ~d.crash /\ Truthy(h.ss.recommended_specialty)
        s2 == IF find_btn /\ btn = "find" THEN [h.ss EXCEPT !.show_providers = TRUE]
              ELSE h.ss
        \* app.py 337-418
        search_btn == ~d.crash /\ s2.show_providers /\ Truthy(s2.recommended_specialty)
        searching == search_btn /\ btn = "search"
    IN  [ss |-> s2,
         sel |-> sel,
         X |-> IF predicting THEN one_hot(sel, feats) ELSE <<>>,
         info |-> h.info,
         response |-> IF searching
                      THEN [kind |-> "sent",
                            params |-> Params(s2.recommended_specialty, limit, location),
                            http |-> http]
                      ELSE NoRequest,
         ui |-> [error |-> h.error, display |-> d, find_btn |-> find_btn,
                 search_btn |-> search_btn,
                 providers |-> IF searching
                               THEN render_provider_results(
                                        fetch_providers_by_specialty(http))
                               ELSE <<>>]]

\* the session and the run's record after a run
Apply(btn, r) ==
    /\ last_prediction' = r.ss.last_prediction
    /\ prediction_probs' = r.ss.prediction_probs
    /\ recommended_specialty' = r.ss.recommended_specialty
    /\ taxonomy_code' = r.ss.taxonomy_code
    /\ show_providers' = r.ss.show_providers
    /\ clicked' = btn
    /\ selected_symptoms' = r.sel
    /\ X' = r.X
    /\ info' = r.info
    /\ response' = r.response
    /\ ui' = r.ui
    /\ UNCHANGED artifacts

\* the first run of a session: nothing clicked
FirstRun(classes, mapping, proba, feats) ==
    ScriptRun(InitialSession, classes, mapping, proba, feats, "none", <<>>, Raise,
              Raised, <<>>, TransportError, 5, NoLocation)

----------------------------------------------------------------------------
(* Inputs of the session specification *)

Rows ==
    { MappingRow("Infectious Disease", "Internal Medicine", "207RI0200X"),
      MappingRow("", "Family Medicine", "207Q00000X"),
      MappingRow("", "", "") }

\* the mapping file: rows keyed "flu" and/or "Flu"; "Cold" and "Gout" have none
Mappings ==
    UNION {[ks -> Rows] : ks \in SUBSET {"flu", "Flu"}}

\* the probability rows the classifier of the session specification returns:
\* distinct values, a value under the threshold, ties at the top and at the bottom
SessionDists ==
    {<<57, 40, 3>>, <<3, 57, 40>>, <<30, 30, 40>>, <<40, 30, 30>>, <<0, 0, 100>>}

PredictOutcomes == {Raise} \cup Range(classes_)

ProbaOutcomes ==
    IF has_predict_proba
    THEN {Raised} \cup {Returned(d) : d \in SessionDists}
    ELSE {Raised}

OrderOutcomes(p) == IF p = Raised THEN {<<>>} ELSE ArgsortOutcomes(p.value)

Jane ==
    [enumeration_type |-> "NPI-1",
     basic |-> [first_name |-> "Jane", last_name |-> "Doe"],
     addresses |-> <<[address_purpose |-> "MAILING", address_1 |-> "PO Box 1"],
                     [address_purpose |-> "LOCATION", address_1 |-> "1 Main St",
                      city |-> "Seattle", state |-> "WA", postal_code |-> "98101",
                      telephone_number |-> "206-555-0100"]>>,
     taxonomies |-> <<[primary |-> FALSE, desc |-> "Internist"],
                      [primary |-> TRUE, desc |-> "Infectious Disease"]>>]

Clinic == [enumeration_type |-> "NPI-2", basic |-> [status |-> "A"]]

JsonBodies ==
    { [result_count |-> 0, results |-> <<>>],
      [result_count |-> 1, results |-> <<Jane>>],
      [result_count |-> 2, results |-> <<Clinic, Jane>>],
      [Errors |-> <<"Invalid value for taxonomy_description">>] }

HttpOutcomes ==
    {TransportError, HttpResponse(404, NoneObj), HttpResponse(500, NoneObj),
     HttpResponse(StatusOK, Raised)}
    \cup {HttpResponse(StatusOK, j) : j \in JsonBodies}

Locations == {NoLocation, [city |-> "Seattle", state |-> "WA", postal_code |-> ""]}

\* the slider at its default
Limits == {5}

----------------------------------------------------------------------------
(* The session specification: the page under any sequence of clicks *)

\* the state after the first run of a session, for the artifacts loaded
Started ==
    LET r == FirstRun(classes_, disease_to_specialty, has_predict_proba, all_symptoms)
    IN  /\ last_prediction = r.ss.last_prediction
        /\ prediction_probs = r.ss.prediction_probs
        /\ recommended_specialty = r.ss.recommended_specialty
        /\ taxonomy_code = r.ss.taxonomy_code
        /\ show_providers = r.ss.show_providers
        /\ selected_symptoms = r.sel
        /\ clicked = "none"
        /\ X = r.X
        /\ info = r.info
        /\ response = r.response
        /\ ui = r.ui

Init ==
    /\ \/ classes_ = StrClasses /\ disease_to_specialty \in Mappings
       \/ classes_ = IntClasses /\ disease_to_specialty = <<>>
    /\ has_predict_proba \in BOOLEAN
    /\ all_symptoms = <<"fever">>
    /\ Started

Run(btn, sel, y, p, order, http, limit, location) ==
    Apply(btn, ScriptRun(CurrentSession, classes_, disease_to_specialty,
                         has_predict_proba, all_symptoms, btn, sel, y, p, order,
                         http, limit, location))

\* "Predict Disease" (disabled while nothing is selected, app.py 263)
PredictClick ==
    \E sel \in Selections(all_symptoms) \ {<<>>} :
    \E y \in PredictOutcomes :
    \E p \in ProbaOutcomes :
    \E order \in OrderOutcomes(p) :
        Run("predict", sel, y, p, order, TransportError, 5, NoLocation)

\* "Find Providers for this Specialty": clickable when the last run rendered it
FindClick ==
    /\ ui.find_btn
    /\ Run("find", selected_symptoms, Raise, Raised, <<>>, TransportError, 5,
           NoLocation)

\* a bug the search could have: the panel is closed once the results are shown
SearchClickClosesPanel ==
    /\ ui.search_btn
    /\ \E http \in HttpOutcomes :
       \E limit \in Limits :
       \E location \in Locations :
           LET r == ScriptRun(CurrentSession, classes_, disease_to_specialty,
                              has_predict_proba, all_symptoms, "search",
                              selected_symptoms, Raise, Raised, <<>>, http, limit,
                              location)
           IN  Apply("search", [r EXCEPT !.ss.show_providers = FALSE])

\* "Search for Healthcare Providers": clickable when the last run rendered it
SearchClick ==
    /\ ui.search_btn
    /\ \E http \in HttpOutcomes :
       \E limit \in Limits :
       \E location \in Locations :
           Run("search", selected_symptoms, Raise, Raised, <<>>, http, limit, location)

\* any other widget change: the script reruns with no button clicked
WidgetChange ==
    /\ clicked \in {"none", "predict", "find", "search"}
    /\ Run("none", selected_symptoms, Raise, Raised, <<>>, TransportError, 5, NoLocation)

Next == PredictClick \/ FindClick \/ SearchClick \/ WidgetChange

Spec == Init /\ [][Next]_vars

----------------------------------------------------------------------------
(* The ranking specification: the first prediction of a session, for every  *)
(* probability row of a classifier with up to MaxClasses classes            *)

ClassNames == <<"A", "B", "C", "D", "E", "F", "G", "H">>

RankLevels == {0, 4, 5, 6, 20, 25, 30, 40, 45, 50, 90, 95, 96, 100}

RankDists == [n \in 1..MaxClasses |-> Dists(n, RankLevels)]

InitRank ==
    /\ \E n \in 1..MaxClasses : classes_ = SubSeq(ClassNames, 1, n)
    /\ disease_to_specialty = <<>>
    /\ has_predict_proba = TRUE
    /\ all_symptoms = <<"fever">>
    /\ Started

\* predict returns the label of a largest probability, as a naive Bayes
\* classifier does
RankPredict ==
    /\ clicked = "none"
    /\ \E d \in RankDists[Len(classes_)] :
       \E order \in ArgsortOutcomes(d) :
           Run("predict", <<"fever">>, classes_[order[Len(order)]], Returned(d), order,
               TransportError, 5, NoLocation)

NextRank == RankPredict

SpecRank == InitRank /\ [][NextRank]_vars

----------------------------------------------------------------------------
(* The encoding specification: predictions over every feature list of up to *)
(* MaxFeatures symptoms and every selection of them                         *)

SymptomNames == {"cough", "fever", "itch", "rash"}

FeatureLists ==
    UNION {{f \in SeqsOfLen(SymptomNames, n) : IsInjective(f)} : n \in 1..MaxFeatures}

InitEncode ==
    /\ classes_ = StrClasses
    /\ disease_to_specialty = <<>>
    /\ has_predict_proba = TRUE
    /\ all_symptoms \in FeatureLists
    /\ Started

EncodeClick ==
    \E sel \in Selections(all_symptoms) \ {<<>>} :
        Run("predict", sel, "Cold", Returned(<<57, 40, 3>>), <<3, 2, 1>>,
            TransportError, 5, NoLocation)

NextEncode == EncodeClick

SpecEncode == InitEncode /\ [][NextEncode]_vars

----------------------------------------------------------------------------
(* The rendering specification: searches answered with every shape of       *)
(* provider record                                                          *)

NameValues == [first_name |-> "Jane", last_name |-> "Doe"]

AddressValues ==
    [address_1 |-> "1 Main St", address_2 |-> "Suite 2", city |-> "Seattle",
     state |-> "WA", postal_code |-> "98101", telephone_number |-> "206-555-0100"]

\* the dict holding the keys ks of d
Restrict(d, ks) == [k \in ks |-> d[k]]

Basics ==
    {<<"NPI-1", Restrict(NameValues, ks)>> : ks \in SUBSET DOMAIN NameValues}
    \cup {<<"NPI-2", [organization_name |-> "Mercy Clinic"]>>,
          <<"NPI-2", [status |-> "A"]>>}

Mailing == [address_purpose |-> "MAILING", address_1 |-> "PO Box 1", city |-> "Tacoma"]

AddressLists ==
    {<<Mailing>>}
    \cup {<<Mailing, [address_purpose |-> "LOCATION"] @@ Restrict(AddressValues, ks)>> :
             ks \in SUBSET DOMAIN AddressValues}

TaxonomyLists ==
    { <<>>,
      <<[primary |-> FALSE, desc |-> "Internist"]>>,
      <<[primary |-> FALSE, desc |-> "Internist"], [primary |-> TRUE]>>,
      <<[primary |-> TRUE, desc |-> "Infectious Disease"]>> }

\* every name shape with one taxonomy list, every taxonomy list with one name shape
NamesAndTaxonomies ==
    {<<b, <<[primary |-> TRUE, desc |-> "Infectious Disease"]>>>> : b \in Basics}
    \cup {<<<<"NPI-1", NameValues>>, t>> : t \in TaxonomyLists}

AllProviders ==
    {[enumeration_type |-> bt[1][1], basic |-> bt[1][2], addresses |-> a,
      taxonomies |-> bt[2]] :
        bt \in NamesAndTaxonomies, a \in AddressLists}

InitRender ==
    /\ classes_ = StrClasses
    /\ disease_to_specialty =
           ("flu" :> MappingRow("Infectious Disease", "Internal Medicine", "207RI0200X"))
    /\ has_predict_proba = TRUE
    /\ all_symptoms = <<"fever">>
    /\ Started

PredictFlu ==
    /\ selected_symptoms \in Selections(all_symptoms)
    /\ Run("predict", <<"fever">>, "Flu", Returned(<<3, 57, 40>>), <<1, 3, 2>>,
           TransportError, 5, NoLocation)

SearchOne ==
    /\ ui.search_btn
    /\ \E provider \in AllProviders :
           Run("search", selected_symptoms, Raise, Raised, <<>>,
               HttpResponse(StatusOK, [result_count |-> 1, results |-> <<provider>>]),
               5, NoLocation)

NextRender == PredictFlu \/ FindClick \/ SearchOne

SpecRender == InitRender /\ [][NextRender]_vars

----------------------------------------------------------------------------
(* Properties *)

PredictSucceeded == clicked = "predict" /\ ui.error = None

PredictFailed == clicked = "predict" /\ ui.error # None

SearchIssued == clicked = "search" /\ response.kind = "sent"

\* C1: a predict action that fails at any step leaves last_prediction,
\* prediction_probs, recommended_specialty, taxonomy_code and show_providers
\* exactly as they were before the action.
C1_FailedPredictKeepsSession == [][PredictFailed' => UNCHANGED session]_vars

\* C2: after every successful predict the stored specialty and taxonomy code are
\* the ones resolved for the current last_prediction, nothing when the mapping has
\* no entry for it, and show_providers is false.
C2_SpecialtyIsOfCurrentPrediction ==
    PredictSucceeded =>
        /\ ~show_providers
        /\ LookupInfo(disease_to_specialty, last_prediction) = NoneObj =>
               ~Truthy(recommended_specialty) /\ ~Truthy(taxonomy_code)

LookupFailed ==
    /\ SearchIssued
    /\ \/ response.http.kind = "exception"
       \/ response.http.status_code # StatusOK

\* what the registry's failure is called in the reason string
FailureReason ==
    IF response.http.kind = "exception" THEN response.http.message
    ELSE ToString(response.http.status_code)

\* C3: a search whose response has a non-200 status, or whose request raises, ends
\* in an error shown with its reason (the status code or the transport message),
\* never in the "no providers found" outcome.
C3_LookupFailureShownAsError ==
    LookupFailed =>
        /\ Len(ui.providers) = 1
        /\ ui.providers[1].kind = "error"
        /\ FailureReason \in Range(ui.providers[1].text)

Others == ui.display.others

Probs == prediction_probs.probs

ShownIdx == {Others[i].idx : i \in DOMAIN Others}

\* the list has at most three entries, none under the threshold, each a class
\* with its probability, and no class left out outranks a class shown
OthersAreTheTop ==
    /\ Len(Others) <= TopN
    /\ \A i \in DOMAIN Others :
          /\ Others[i].prob >= Threshold
          /\ Others[i].idx \in DOMAIN Probs
          /\ Others[i].prob = Probs[Others[i].idx]
          /\ Others[i].label = classes_[Others[i].idx]
    /\ \A i, j \in DOMAIN Others : Others[i].idx = Others[j].idx => i = j
    /\ \A c \in DOMAIN Probs \ ShownIdx :
          \/ Probs[c] < Threshold
          \/ Len(Others) = TopN /\ \A i \in ShownIdx : Probs[c] <= Probs[i]

\* C4 (as claimed): the "other possibilities" are the top three at or above 0.05,
\* strictly descending by probability, equal probabilities in class order.
C4_OthersStrictlyDescending ==
    PredictSucceeded =>
        /\ OthersAreTheTop
        /\ \A i, j \in DOMAIN Others :
              i < j => \/ Others[i].prob > Others[j].prob
                       \/ /\ Others[i].prob = Others[j].prob
                          /\ Others[i].idx < Others[j].idx

\* C4 (amended): the "other possibilities" are the top three at or above 0.05, in
\* descending order of probability; equal probabilities come in no fixed order.
C4_OthersDescending ==
    PredictSucceeded =>
        /\ OthersAreTheTop
        /\ \A i, j \in DOMAIN Others : i < j => Others[i].prob >= Others[j].prob

\* a row with a tie among the shown classes and a class left out
C4_Witness ==
    /\ PredictSucceeded
    /\ Len(classes_) > TopN
    /\ Len(Others) = TopN
    /\ Others[1].prob = Others[2].prob
    /\ Others[1].idx > Others[2].idx
    /\ \E c \in DOMAIN Probs : Probs[c] < Threshold

\* C5: one_hot yields one row as long as the feature list, in feature-list order,
\* with 1 exactly at the features selected, whatever the order of the selection.
C5_OneHotEncoding ==
    clicked = "predict" =>
        /\ Len(X) = Len(all_symptoms)
        /\ \A i \in DOMAIN all_symptoms :
              X[i] = IF all_symptoms[i] \in Range(selected_symptoms) THEN 1 ELSE 0
        /\ SumSeq(X) = Cardinality(Range(selected_symptoms) \cap Range(all_symptoms))
        /\ \A other \in Selections(all_symptoms) :
              Range(other) = Range(selected_symptoms) =>
                  one_hot(other, all_symptoms) = X

\* two of three symptoms, selected against the order of the feature list
C5_Witness ==
    /\ clicked = "predict"
    /\ Len(all_symptoms) = 3
    /\ Len(selected_symptoms) = 2
    /\ selected_symptoms[1] = all_symptoms[3]
    /\ selected_symptoms[2] = all_symptoms[1]
    /\ X = <<1, 0, 1>>

\* C6: the entry used for label L is the one keyed lowercase(L) if there is one,
\* else the one keyed L, else none; the specialty of an entry is its
\* Specialization, or its Classification when that is empty, and the taxonomy
\* code its Taxonomy Code.
C6_SpecialtyResolution ==
    PredictSucceeded =>
        LET L == last_prediction
            m == disease_to_specialty
            entry == IF Lower(L) \in DOMAIN m THEN m[Lower(L)]
                     ELSE IF L \in DOMAIN m THEN m[L]
                     ELSE NoneObj
        IN  /\ info = entry
            /\ entry # NoneObj =>
                  /\ recommended_specialty =
                         IF entry.Specialization # "" THEN entry.Specialization
                         ELSE entry.Classification
                  /\ taxonomy_code = entry[TaxonomyCodeKey]

\* a mapping keyed "flu" only resolves the predicted label "Flu"
C6_Witness ==
    /\ PredictSucceeded
    /\ last_prediction = "Flu"
    /\ DOMAIN disease_to_specialty = {"flu"}
    /\ disease_to_specialty["flu"].Specialization = "Infectious Disease"
    /\ recommended_specialty = "Infectious Disease"

\* C7: find-providers is clicked only with a specialty present; show_providers
\* turns true only by that click; a search is issued only with show_providers
\* true and a specialty present; a successful predict turns show_providers false
\* and takes the search button away.
C7_ProviderPanelProtocol ==
    [][ /\ clicked' = "find" => Truthy(recommended_specialty)
        /\ (~show_providers /\ show_providers') => clicked' = "find"
        /\ SearchIssued' =>
              show_providers /\ show_providers' /\ Truthy(recommended_specialty')
        /\ PredictSucceeded' => ~show_providers' /\ ~ui'.search_btn ]_vars

\* a search issued from the open panel and answered with provider cards
C7_Witness ==
    /\ SearchIssued
    /\ show_providers
    /\ Truthy(recommended_specialty)
    /\ ui.search_btn
    /\ Len(ui.providers) > 1

\* C8: a search, whatever its outcome, leaves the five session fields unchanged.
C8_SearchKeepsSession == [][clicked' = "search" => UNCHANGED session]_vars

\* a search answered 404 or 500, made with a prediction stored
C8_Witness ==
    /\ LookupFailed
    /\ response.http.kind = "http"
    /\ Truthy(last_prediction)
    /\ show_providers

Separators == {" ", ", ", "<br>"}

FieldClasses ==
    {"provider-name", "provider-address", "provider-contact", "provider-taxonomy"}

\* C9: a field of a provider record that is absent renders no element and no
\* placeholder text: every element of a card carries the value of some field.
C9_AbsentFieldsRenderNothing ==
    (SearchIssued /\ response.http.kind = "http") =>
        \A i \in DOMAIN ui.providers :
            ui.providers[i].cls \in FieldClasses =>
                \E t \in Range(ui.providers[i].text) : t \notin Separators

\* C10: whenever a prediction is stored and displayed, prediction_probs holds a
\* table, so the display never subscripts None.
C10_DisplayedPredictionHasProbs ==
    Truthy(last_prediction) => prediction_probs # NoneObj /\ ~ui.display.crash

====
